---------------------------- MODULE Spec2Model ----------------------------
(***************************************************************************)
(* A model of src/systems/audio-system.js: the AudioSystem class (mixer    *)
(* graph, outbound aggregator, output routing in updatePrefs) and the      *)
(* Chrome AEC loopback workaround (enableChromeAEC, performDelayedReconnect*)
(* and the gesture handler _resumeAudioContext).                           *)
(*                                                                         *)
(* The program is single threaded and callback driven: every action below  *)
(* is one run-to-completion callback, or the part of an async function     *)
(* between two awaits.                                                     *)
(***************************************************************************)
EXTENDS Integers, FiniteSets, Sequences, TLC

\* Bounds of the model.
MaxSessions == 2        \* enableChromeAEC calls explored
MaxTimers == 2          \* setTimeout(..., 10000) calls explored
MaxResumeTimeouts == 1  \* setTimeout(..., 0) callbacks pending at once

VARIABLES
    \* ---- audio context and gesture handling (AudioSystem) ----
    audioCtxState,                \* this.audioContext.state: "suspended" | "running"
    resumeRequested,              \* audioContext.resume() was called and has not settled
    gestureListeners,             \* touchend/mouseup -> _resumeAudioContext registered on body
    resumeTimeouts,               \* number of pending setTimeout(..., 0) callbacks of _resumeAudioContext
    audioContextNeedsToBeResumed, \* this.audioContextNeedsToBeResumed
    isMobile,                     \* AFRAME.utils.device.isMobile()
    isChrome,                     \* /chrome/i.test(navigator.userAgent)
    disableEchoCancellation,      \* APP.store.state.preferences.disableEchoCancellation
    \* ---- AEC loopback (module level of the file) ----
    sessions,                     \* one record per enableChromeAEC call, in call order
    destinationGainOut,           \* outputs this.destinationGain is connected to
    delayedReconnectTimeout,      \* the module variable: Null or a timer id
    pendingTimers,                \* ids of the 10s timers the browser still has to fire
    nextTimerId,                  \* the id the next setTimeout(..., 10000) returns
    \* ---- preferences and output devices (external state updatePrefs reads) ----
    preferences,                  \* APP.store.state.preferences (volumes, panning)
    isAudioOutputSelectEnabled,   \* MediaDevicesManager.isAudioOutputSelectEnabled && APP.mediaDevicesManager
    selectedSpeakersDeviceId,     \* APP.mediaDevicesManager.selectedSpeakersDeviceId
    \* ---- mixer graph and output routing (AudioSystem) ----
    mixerOut,                     \* outputs of each gain node of this.mixer
    gainTarget,                   \* per gain node: the target last set on its gain, and how
    outputMediaAudio,             \* this.outputMediaAudio: NoElement or an index of audioElements
    audioElements,                \* the Audio elements updatePrefs created, in creation order
    sinkOps,                      \* the setSinkId calls made, in call order
    disableLeftRightPanning,      \* this.disableLeftRightPanning (value seen last)
    audioPanningQuality,          \* this.audioPanningQuality (value seen last)
    audios,                       \* APP.audios
    sourceOut,                    \* outputs of each node handed to addAudio/removeAudio
    registered,                   \* per such node: the sourceType of its last addAudio, "none" once removed
    \* ---- outbound aggregator (AudioSystem) ----
    audioNodes,                   \* this.audioNodes: id -> {sourceNode, gainNode}
    outboundNodes                 \* the nodes addStreamToOutboundAudio created, in creation order

aecVars == <<audioCtxState, resumeRequested, gestureListeners, resumeTimeouts,
             audioContextNeedsToBeResumed, isMobile, isChrome, disableEchoCancellation,
             sessions, destinationGainOut, delayedReconnectTimeout, pendingTimers,
             nextTimerId>>

ctxVars == <<audioCtxState, resumeRequested, gestureListeners, resumeTimeouts,
             audioContextNeedsToBeResumed>>
platformVars == <<isMobile, isChrome>>
timerVars == <<delayedReconnectTimeout, pendingTimers, nextTimerId>>

prefVars == <<preferences, isAudioOutputSelectEnabled, selectedSpeakersDeviceId>>
routingVars == <<mixerOut, outputMediaAudio, audioElements, sinkOps>>
panningVars == <<disableLeftRightPanning, audioPanningQuality, audios>>
sourceVars == <<sourceOut, registered>>
outboundVars == <<audioNodes, outboundNodes>>
graphVars == <<prefVars, routingVars, gainTarget, panningVars, sourceVars, outboundVars>>

vars == <<aecVars, graphVars>>

\* The null of "let delayedReconnectTimeout = null": timer ids are positive.
Null == 0

\* The true output of the audio context, and the MediaStreamDestination that
\* the s-th call of enableChromeAEC created.
AudioDestination == <<"destination", 0>>
LoopbackDestination(s) == <<"loopback", s>>

-----------------------------------------------------------------------------
(***************************************************************************)
(* enableChromeAEC                                                         *)
(***************************************************************************)

\* State of one call of enableChromeAEC.  pc is the position of the async
\* function: the await it is suspended at, "done" once the try block ran to
\* its end, "aborted" once the catch block ran.  The four description fields
\* are the promises of setLocalDescription/setRemoteDescription: "none" (not
\* called), "pending", "set" (fulfilled) or "failed" (rejected).  answer is
\* the answer of createAnswer: "none", "created" or "rewritten".  toInbound
\* and toOutbound are the addIceCandidate calls made on the inbound and on
\* the outbound connection, in call order, each with the state of its promise.
NewSession(addTrackOk) ==
    [pc        |-> IF addTrackOk THEN "createOffer" ELSE "aborted",
     outLocal  |-> "none",
     inRemote  |-> "none",
     inLocal   |-> "none",
     outRemote |-> "none",
     answer    |-> "none",
     outIce    |-> "new",
     inIce     |-> "new",
     toInbound  |-> <<>>,
     toOutbound |-> <<>>]

\* The synchronous part of a call: both peer connections, the loopback
\* destination and the handlers are created, the tracks are added and
\* createOffer is called.  A throw of addTrack is caught by the catch block.
\* No connection is ever closed, so every session of the sequence stays.
EnableChromeAEC(addTrackOk) ==
    sessions' = Append(sessions, NewSession(addTrackOk))

CanEnable == Len(sessions) < MaxSessions

\* await outboundPeerConnection.createOffer() settles.  On success
\* outbound.setLocalDescription(offer) is called without await, and
\* inbound.setRemoteDescription(offer) is called and awaited.
CreateOfferSettles(s, ok) ==
    /\ sessions[s].pc = "createOffer"
    /\ sessions' = [sessions EXCEPT ![s] =
          IF ok THEN [@ EXCEPT !.pc = "setRemoteOffer",
                               !.outLocal = "pending",
                               !.inRemote = "pending"]
                ELSE [@ EXCEPT !.pc = "aborted"]]
    /\ UNCHANGED <<ctxVars, platformVars, timerVars, disableEchoCancellation,
                   destinationGainOut>>
    /\ UNCHANGED graphVars

\* await inboundPeerConnection.setRemoteDescription(offer) settles.  On
\* success inbound.createAnswer() is called and awaited.
InboundSetRemoteSettles(s, ok) ==
    /\ sessions[s].pc = "setRemoteOffer"
    /\ sessions' = [sessions EXCEPT ![s] =
          IF ok THEN [@ EXCEPT !.pc = "createAnswer", !.inRemote = "set"]
                ELSE [@ EXCEPT !.pc = "aborted", !.inRemote = "failed"]]
    /\ UNCHANGED <<ctxVars, platformVars, timerVars, disableEchoCancellation,
                   destinationGainOut>>
    /\ UNCHANGED graphVars

\* gainNode.disconnect(); gainNode.connect(loopbackDestination);
Reroute(out, s) == {LoopbackDestination(s)}

\* await inboundPeerConnection.createAnswer() settles.  On success the SDP of
\* the answer is rewritten (a throw there is caught), then
\* inbound.setLocalDescription(answer) and outbound.setRemoteDescription(answer)
\* are called without await, and the gain node is rerouted at once.
CreateAnswerSettles(s, ok, rewriteOk) ==
    /\ sessions[s].pc = "createAnswer"
    /\ IF ok /\ rewriteOk
       THEN /\ sessions' = [sessions EXCEPT ![s] =
                  [@ EXCEPT !.pc = "done", !.answer = "rewritten",
                            !.inLocal = "pending", !.outRemote = "pending"]]
            /\ destinationGainOut' = Reroute(destinationGainOut, s)
       ELSE /\ sessions' = [sessions EXCEPT ![s] =
                  [@ EXCEPT !.pc = "aborted",
                            !.answer = IF ok THEN "created" ELSE "none"]]
            /\ UNCHANGED destinationGainOut
    /\ UNCHANGED <<ctxVars, platformVars, timerVars, disableEchoCancellation>>
    /\ UNCHANGED graphVars

\* The promise of outbound.setLocalDescription(offer) (line 97) settles.
\* Nothing awaits it and nothing handles its rejection.
OutboundSetLocalSettles(s, ok) ==
    /\ sessions[s].outLocal = "pending"
    /\ sessions' = [sessions EXCEPT ![s].outLocal = IF ok THEN "set" ELSE "failed"]
    /\ UNCHANGED <<ctxVars, platformVars, timerVars, disableEchoCancellation,
                   destinationGainOut>>
    /\ UNCHANGED graphVars

\* The promise of inbound.setLocalDescription(answer) (line 111) settles.
InboundSetLocalSettles(s, ok) ==
    /\ sessions[s].inLocal = "pending"
    /\ sessions' = [sessions EXCEPT ![s].inLocal = IF ok THEN "set" ELSE "failed"]
    /\ UNCHANGED <<ctxVars, platformVars, timerVars, disableEchoCancellation,
                   destinationGainOut>>
    /\ UNCHANGED graphVars

\* The promise of outbound.setRemoteDescription(answer) (line 112) settles.
\* A peer connection runs its operations one after the other, so it settles
\* after setLocalDescription(offer) on the same connection, and it cannot
\* succeed when there is no local offer.
OutboundSetRemoteSettles(s, ok) ==
    /\ sessions[s].outRemote = "pending"
    /\ sessions[s].outLocal # "pending"
    /\ ok => sessions[s].outLocal = "set"
    /\ sessions' = [sessions EXCEPT ![s].outRemote = IF ok THEN "set" ELSE "failed"]
    /\ UNCHANGED <<ctxVars, platformVars, timerVars, disableEchoCancellation,
                   destinationGainOut>>
    /\ UNCHANGED graphVars

-----------------------------------------------------------------------------
(***************************************************************************)
(* The icecandidate handlers                                               *)
(***************************************************************************)

\* Bound on the icecandidate events explored, over all sessions.
MaxCandidates == 3

RECURSIVE CandidatesUpTo(_, _)
CandidatesUpTo(ss, n) ==
    IF n = 0 THEN 0
    ELSE Len(ss[n].toInbound) + Len(ss[n].toOutbound) + CandidatesUpTo(ss, n - 1)
CanGather == CandidatesUpTo(sessions, Len(sessions)) < MaxCandidates

\* connection.addIceCandidate(e.candidate): the call joins the operations the
\* connection has still to run.
AddIceCandidate(calls) == Append(calls, "queued")

\* Mutant of CandidateRejected: addIceCandidate(...) without .catch(onError).
CandidateRejectedUncaught == "unhandled"

\* A rejection of addIceCandidate(...).catch(onError): onError logs it.
CandidateRejected == "rejected"

\* The connection runs a queued addIceCandidate: the candidate is applied
\* when the connection has a remote description, the promise is rejected
\* when it has none (or when the candidate is refused, ok = FALSE).
AddIceCandidateSettles(calls, i, remote, ok) ==
    [calls EXCEPT ![i] = IF ok /\ remote = "set" THEN "applied" ELSE CandidateRejected]

\* The first call of the sequence that has not been run.
FirstQueued(calls, i) ==
    /\ calls[i] = "queued"
    /\ \A j \in 1..(i - 1) : calls[j] # "queued"

\* The handler of lines 50-52: the outbound connection gathers candidates
\* once its local description is set.
OutboundIceCandidate(s) ==
    /\ sessions[s].outLocal = "set"
    /\ CanGather
    /\ sessions' = [sessions EXCEPT ![s].toInbound = AddIceCandidate(@)]
    /\ UNCHANGED <<ctxVars, platformVars, timerVars, disableEchoCancellation,
                   destinationGainOut>>
    /\ UNCHANGED graphVars

\* The handler of lines 69-71.
InboundIceCandidate(s) ==
    /\ sessions[s].inLocal = "set"
    /\ CanGather
    /\ sessions' = [sessions EXCEPT ![s].toOutbound = AddIceCandidate(@)]
    /\ UNCHANGED <<ctxVars, platformVars, timerVars, disableEchoCancellation,
                   destinationGainOut>>
    /\ UNCHANGED graphVars

\* The promise of inbound.addIceCandidate (line 51) settles.  A connection
\* runs its operations in call order: setRemoteDescription(offer), called in
\* the turn that called outbound.setLocalDescription(offer), comes first.
InboundAddIceCandidateSettles(s, i, ok) ==
    /\ FirstQueued(sessions[s].toInbound, i)
    /\ sessions[s].inRemote # "pending"
    /\ sessions' = [sessions EXCEPT ![s].toInbound =
                       AddIceCandidateSettles(@, i, sessions[s].inRemote, ok)]
    /\ UNCHANGED <<ctxVars, platformVars, timerVars, disableEchoCancellation,
                   destinationGainOut>>
    /\ UNCHANGED graphVars

\* The promise of outbound.addIceCandidate (line 70) settles, after
\* setRemoteDescription(answer), called in the turn that called
\* inbound.setLocalDescription(answer).
OutboundAddIceCandidateSettles(s, i, ok) ==
    /\ FirstQueued(sessions[s].toOutbound, i)
    /\ sessions[s].outRemote # "pending"
    /\ sessions' = [sessions EXCEPT ![s].toOutbound =
                       AddIceCandidateSettles(@, i, sessions[s].outRemote, ok)]
    /\ UNCHANGED <<ctxVars, platformVars, timerVars, disableEchoCancellation,
                   destinationGainOut>>
    /\ UNCHANGED graphVars

-----------------------------------------------------------------------------
(***************************************************************************)
(* performDelayedReconnect and the iceconnectionstatechange handlers       *)
(***************************************************************************)

\* clearTimeout(id): a pending timer with that id is dropped, any other id
\* (one that fired or was cleared before) is ignored.
ClearTimeout(timers, id) == timers \ {id}

\* Mutant of PerformDelayedReconnect: the pending timer is not cleared before
\* the next one is set.
PerformDelayedReconnectNoClear ==
    /\ nextTimerId <= MaxTimers
    /\ pendingTimers' = pendingTimers \cup {nextTimerId}
    /\ delayedReconnectTimeout' = nextTimerId
    /\ nextTimerId' = nextTimerId + 1

\* performDelayedReconnect(gainNode), lines 5-18, up to the setTimeout call.
PerformDelayedReconnect ==
    /\ nextTimerId <= MaxTimers
    /\ pendingTimers' =
          (IF delayedReconnectTimeout # Null
           THEN ClearTimeout(pendingTimers, delayedReconnectTimeout)
           ELSE pendingTimers) \cup {nextTimerId}
    /\ delayedReconnectTimeout' = nextTimerId
    /\ nextTimerId' = nextTimerId + 1

\* Mutant of CancelDelayedReconnect: the "connected" branch forgets the timer
\* without clearing it.
CancelDelayedReconnectNoClear ==
    /\ delayedReconnectTimeout' = Null
    /\ UNCHANGED <<pendingTimers, nextTimerId>>

\* The "connected" branch of both handlers, lines 60-66 and 77-83: the timer
\* is cleared, the variable keeps its value.
CancelDelayedReconnect ==
    /\ pendingTimers' =
          IF delayedReconnectTimeout # Null
          THEN ClearTimeout(pendingTimers, delayedReconnectTimeout)
          ELSE pendingTimers
    /\ UNCHANGED <<delayedReconnectTimeout, nextTimerId>>

\* Body shared by the two iceconnectionstatechange handlers.
OnIceConnectionState(state) ==
    IF state = "disconnected" THEN PerformDelayedReconnect
    ELSE IF state = "connected" THEN CancelDelayedReconnect
    ELSE UNCHANGED timerVars

\* All four descriptions of the session are in place: ICE can connect.
Negotiated(s) ==
    /\ sessions[s].outLocal = "set"
    /\ sessions[s].inRemote = "set"
    /\ sessions[s].inLocal = "set"
    /\ sessions[s].outRemote = "set"

\* The iceConnectionState changes a connected pair of local connections goes
\* through: it connects once negotiated, may lose the connection and may
\* recover by itself.
IceTransition(from, to) ==
    \/ from = "new" /\ to = "connected"
    \/ from = "connected" /\ to = "disconnected"
    \/ from = "disconnected" /\ to = "connected"

\* The handler of lines 53-67.
OutboundIceConnectionStateChange(s, state) ==
    /\ Negotiated(s)
    /\ IceTransition(sessions[s].outIce, state)
    /\ sessions' = [sessions EXCEPT ![s].outIce = state]
    /\ OnIceConnectionState(state)
    /\ UNCHANGED <<ctxVars, platformVars, disableEchoCancellation, destinationGainOut>>
    /\ UNCHANGED graphVars

\* The handler of lines 72-84.
InboundIceConnectionStateChange(s, state) ==
    /\ Negotiated(s)
    /\ IceTransition(sessions[s].inIce, state)
    /\ sessions' = [sessions EXCEPT ![s].inIce = state]
    /\ OnIceConnectionState(state)
    /\ UNCHANGED <<ctxVars, platformVars, disableEchoCancellation, destinationGainOut>>
    /\ UNCHANGED graphVars

\* The callback of the 10s timer, lines 10-17.
DelayedReconnectFires(t, addTrackOk) ==
    /\ t \in pendingTimers
    /\ CanEnable
    /\ pendingTimers' = pendingTimers \ {t}
    /\ delayedReconnectTimeout' = Null
    /\ EnableChromeAEC(addTrackOk)
    /\ UNCHANGED <<ctxVars, platformVars, disableEchoCancellation, destinationGainOut,
                   nextTimerId>>
    /\ UNCHANGED graphVars

-----------------------------------------------------------------------------
(***************************************************************************)
(* AudioSystem: the audio context and the user gesture                     *)
(***************************************************************************)

\* _resumeAudioContext, lines 294-308, up to the setTimeout call: a touchend
\* or mouseup on the body while the listener is registered.
ResumeAudioContext ==
    /\ gestureListeners
    /\ resumeTimeouts < MaxResumeTimeouts
    /\ resumeRequested' = (resumeRequested \/ audioCtxState = "suspended")
    /\ resumeTimeouts' = resumeTimeouts + 1
    /\ UNCHANGED <<audioCtxState, gestureListeners, audioContextNeedsToBeResumed,
                   platformVars, disableEchoCancellation, sessions, destinationGainOut,
                   timerVars>>
    /\ UNCHANGED graphVars

\* The condition of line 300.
ShouldEnableAEC == ~isMobile /\ isChrome /\ ~disableEchoCancellation

\* The setTimeout(..., 0) callback of _resumeAudioContext, lines 297-307.
ResumeTimeoutFires(addTrackOk) ==
    /\ resumeTimeouts > 0
    /\ resumeTimeouts' = resumeTimeouts - 1
    /\ IF audioCtxState = "running"
       THEN /\ IF ShouldEnableAEC
               THEN CanEnable /\ EnableChromeAEC(addTrackOk)
               ELSE addTrackOk /\ UNCHANGED sessions
            /\ gestureListeners' = FALSE
       ELSE /\ addTrackOk
            /\ UNCHANGED <<sessions, gestureListeners>>
    /\ UNCHANGED <<audioCtxState, resumeRequested, audioContextNeedsToBeResumed,
                   platformVars, disableEchoCancellation, destinationGainOut, timerVars>>
    /\ UNCHANGED graphVars

\* audioContext.onstatechange with state "running", lines 323-326: a
\* requested resume completes.
AudioContextResumed ==
    /\ audioCtxState = "suspended"
    /\ resumeRequested
    /\ audioCtxState' = "running"
    /\ resumeRequested' = FALSE
    /\ audioContextNeedsToBeResumed' = FALSE
    /\ UNCHANGED <<gestureListeners, resumeTimeouts, platformVars,
                   disableEchoCancellation, sessions, destinationGainOut, timerVars>>
    /\ UNCHANGED graphVars

\* audioContext.onstatechange with state "suspended", lines 315-322: the
\* platform interrupts the audio engine (headset unplugged).
AudioContextSuspended ==
    /\ audioCtxState = "running"
    /\ audioCtxState' = "suspended"
    /\ gestureListeners' = TRUE
    /\ audioContextNeedsToBeResumed' = TRUE
    /\ UNCHANGED <<resumeRequested, resumeTimeouts, platformVars,
                   disableEchoCancellation, sessions, destinationGainOut, timerVars>>
    /\ UNCHANGED graphVars

-----------------------------------------------------------------------------
(***************************************************************************)
(* AudioSystem: the mixer and updatePrefs                                  *)
(***************************************************************************)

\* SourceType, the keys of this.mixer, and the gain node each key maps to
\* (lines 140-146): MEDIA_VIDEO and AUDIO_TARGET share this.mediaGain.
SourceTypes == {"AVATAR_AUDIO_SOURCE", "MEDIA_VIDEO", "AUDIO_TARGET", "SFX"}
GainNodes == {"voiceGain", "mediaGain", "sfxGain"}
Mixer(sourceType) ==
    CASE sourceType = "AVATAR_AUDIO_SOURCE" -> "voiceGain"
      [] sourceType = "MEDIA_VIDEO" -> "mediaGain"
      [] sourceType = "AUDIO_TARGET" -> "mediaGain"
      [] sourceType = "SFX" -> "sfxGain"

\* Output devices.  The default device id is what the media devices manager
\* reports as defaultOutputDeviceId; the sinkId of a fresh Audio element is
\* the empty string, which is no device id.
DefaultOutputDeviceId == "default"
Devices == {DefaultOutputDeviceId, "X", "Y"}
EmptySinkId == ""
NoElement == 0

\* newGain = volume / 100 (lines 207, 210, 213), kept as a fraction.
NewGain(volume) == [num |-> volume, den |-> 100]

\* gain.setTargetAtTime(target, this.audioContext.currentTime, GAIN_TIME_CONST):
\* the gain approaches the target from the current time on; and the gain
\* param of a node createGain() returned, which nothing has been set on.
SetTargetAtTime(target) == [target |-> target, method |-> "setTargetAtTime"]
CreatedGain == [target |-> [num |-> 1, den |-> 1], method |-> "default"]

\* Mutant of VolumeTargets: the voice and the sound effect volume are taken
\* for each other.
VolumeTargetsSwapped(prefs) ==
    [n \in GainNodes |->
        CASE n = "mediaGain" -> SetTargetAtTime(NewGain(prefs.globalMediaVolume))
          [] n = "sfxGain" -> SetTargetAtTime(NewGain(prefs.globalVoiceVolume))
          [] n = "voiceGain" -> SetTargetAtTime(NewGain(prefs.globalSFXVolume))]

\* Lines 206-218: the three setTargetAtTime calls.
VolumeTargets(prefs) ==
    [n \in GainNodes |->
        CASE n = "mediaGain" -> SetTargetAtTime(NewGain(prefs.globalMediaVolume))
          [] n = "sfxGain" -> SetTargetAtTime(NewGain(prefs.globalSFXVolume))
          [] n = "voiceGain" -> SetTargetAtTime(NewGain(prefs.globalVoiceVolume))]

\* this.outputMediaAudio?.sinkId: Undefined when there is no element.
Undefined == "undefined"
CurrentSinkId ==
    IF outputMediaAudio = NoElement THEN Undefined
    ELSE audioElements[outputMediaAudio].sinkId

\* The condition of line 223.
MustReroute(sinkId) ==
    /\ (outputMediaAudio # NoElement \/ sinkId # DefaultOutputDeviceId)
    /\ sinkId # CurrentSinkId

\* Lines 147-156: the constructor connects every gain node of the mixer to
\* this.destinationGain and to the analyser.
ConstructedMixerOut == [n \in GainNodes |-> {"destinationGain", "mixerAnalyser"}]

\* Mutant of ConnectMixerTo: the media gain node is disconnected and only
\* connected to the analyser again.
ConnectMixerToButMedia(sink) ==
    [n \in GainNodes |->
        IF n = "mediaGain" THEN {"mixerAnalyser"} ELSE {sink, "mixerAnalyser"}]

\* Lines 224-233: every gain node of the mixer is disconnected, then connected
\* to the sink and to the analyser.
ConnectMixerTo(sink) == [n \in GainNodes |-> {sink, "mixerAnalyser"}]

\* The output the gain nodes of the mixer feed, when they agree on one.
MixerSinkIn(out) ==
    IF \A n \in GainNodes : out[n] = {"destinationGain", "mixerAnalyser"}
    THEN "destinationGain"
    ELSE IF \A n \in GainNodes : out[n] = {"audioDestination", "mixerAnalyser"}
    THEN "audioDestination"
    ELSE "mixed"
MixerSink == MixerSinkIn(mixerOut)

\* new Audio() with srcObject = this.audioDestination.stream (lines 248-249).
NewAudioElement == [sinkId |-> EmptySinkId, srcObject |-> "stream", paused |-> TRUE]

\* Lines 220-258 for the selected device sinkId.
UpdateRouting(sinkId) ==
    IF isAudioOutputSelectEnabled /\ MustReroute(sinkId)
    THEN IF sinkId = DefaultOutputDeviceId
         THEN \* lines 234-239: the element exists here, by the condition of line 223
              /\ mixerOut' = ConnectMixerTo("destinationGain")
              /\ audioElements' = [audioElements EXCEPT ![outputMediaAudio] =
                                      [@ EXCEPT !.paused = TRUE, !.srcObject = "null"]]
              /\ outputMediaAudio' = NoElement
              /\ UNCHANGED sinkOps
         ELSE \* lines 240-256
              LET el == IF outputMediaAudio = NoElement
                        THEN Len(audioElements) + 1 ELSE outputMediaAudio
                  els == IF outputMediaAudio = NoElement
                         THEN Append(audioElements, NewAudioElement) ELSE audioElements
              IN /\ mixerOut' = ConnectMixerTo("audioDestination")
                 /\ audioElements' = els
                 /\ outputMediaAudio' = el
                 /\ IF els[el].sinkId # sinkId
                    THEN sinkOps' = Append(sinkOps,
                            [el |-> el, sinkId |-> sinkId, status |-> "pending",
                             prior |-> MixerSink])
                    ELSE UNCHANGED sinkOps
    ELSE UNCHANGED routingVars

\* getCurrentAudioSettings(elOrEid).audioType: stereo when left/right panning
\* is disabled by preference, the type the entity asks for otherwise.
CurrentAudioType(audio, prefs) ==
    IF prefs.disableLeftRightPanning THEN "stereo" ELSE audio.audioType

\* Mutant of UpdateAudio: the "else if" of line 283 is a plain "if", so the
\* settings are re-applied after a switch as well.
UpdateAudioNoElse(audio, prefs, shouldRecreateAudio, shouldUpdateAudioSettings) ==
    LET swap == /\ shouldRecreateAudio
                /\ \/ ~audio.positional /\ CurrentAudioType(audio, prefs) = "pannernode"
                   \/ audio.positional /\ CurrentAudioType(audio, prefs) = "stereo"
    IN [audio EXCEPT
          !.positional = IF swap THEN ~audio.positional ELSE audio.positional,
          !.done = (IF swap THEN {"swapAudioType"} ELSE {})
                   \cup (IF shouldUpdateAudioSettings THEN {"updateAudioSettings"} ELSE {})]

\* Lines 269-287 for one entry of APP.audios: what is done to it, and whether
\* it is positional afterwards (swapAudioType replaces a panner by a stereo
\* node and back).
UpdateAudio(audio, prefs, shouldRecreateAudio, shouldUpdateAudioSettings) ==
    IF shouldRecreateAudio
    THEN IF \/ ~audio.positional /\ CurrentAudioType(audio, prefs) = "pannernode"
            \/ audio.positional /\ CurrentAudioType(audio, prefs) = "stereo"
         THEN [audio EXCEPT !.positional = ~audio.positional,
                            !.done = IF ~audio.positional
                                     THEN {"swapAudioType", "updatePannerNode"}
                                     ELSE {"swapAudioType"}]
         ELSE [audio EXCEPT !.done = {}]
    ELSE IF shouldUpdateAudioSettings
    THEN [audio EXCEPT !.done = {"updateAudioSettings"}]
    ELSE [audio EXCEPT !.done = {}]

\* Lines 260-287.
UpdatePanning(prefs) ==
    LET shouldRecreateAudio == disableLeftRightPanning # prefs.disableLeftRightPanning
        shouldUpdateAudioSettings == audioPanningQuality # prefs.audioPanningQuality
    IN /\ disableLeftRightPanning' = prefs.disableLeftRightPanning
       /\ audioPanningQuality' = prefs.audioPanningQuality
       /\ audios' = [a \in DOMAIN audios |->
                        UpdateAudio(audios[a], prefs, shouldRecreateAudio,
                                    shouldUpdateAudioSettings)]

\* updatePrefs, lines 205-288, as the handler of "statechanged" that reads
\* the preferences prefs and the selected device sinkId.
UpdatePrefs(prefs, sinkId) ==
    /\ gainTarget' = VolumeTargets(prefs)
    /\ UpdateRouting(sinkId)
    /\ UpdatePanning(prefs)

\* Bounds on the Audio elements created and on the setSinkId calls made.
MaxAudioElements == 2
MaxSinkOps == 3

\* The store changes and notifies: the output device selection becomes sinkId
\* (it may stay what it was: any change of the store notifies).
SpeakersStateChanged(sinkId) ==
    /\ Len(audioElements) < MaxAudioElements \/ outputMediaAudio # NoElement
          \/ sinkId = DefaultOutputDeviceId \/ ~isAudioOutputSelectEnabled
    /\ Len(sinkOps) < MaxSinkOps
    /\ selectedSpeakersDeviceId' = sinkId
    /\ UpdatePrefs(preferences, sinkId)
    /\ UNCHANGED <<preferences, isAudioOutputSelectEnabled, aecVars, sourceVars,
                   outboundVars>>

\* The values a volume preference and the panning quality preference take.
Volumes == {0, 50, 100}
PanningQualities == {"High", "Low"}
Preferences ==
    [globalVoiceVolume : Volumes, globalMediaVolume : Volumes, globalSFXVolume : Volumes,
     disableLeftRightPanning : BOOLEAN, audioPanningQuality : PanningQualities]

\* The store changes and notifies: the preferences become prefs (they may
\* stay what they were), the selected device stays.
PreferencesChanged(prefs) ==
    /\ preferences' = prefs
    /\ UpdatePrefs(prefs, selectedSpeakersDeviceId)
    /\ UNCHANGED <<isAudioOutputSelectEnabled, selectedSpeakersDeviceId, aecVars,
                   sourceVars, outboundVars>>

\* The store changes and notifies: the disableEchoCancellation preference
\* becomes disabled.  updatePrefs runs and does not read it.
EchoCancellationPrefChanged(disabled) ==
    /\ disableEchoCancellation' = disabled
    /\ UpdatePrefs(preferences, selectedSpeakersDeviceId)
    /\ UNCHANGED <<ctxVars, platformVars, timerVars, sessions, destinationGainOut>>
    /\ UNCHANGED <<prefVars, sourceVars, outboundVars>>

\* The promise of setSinkId (line 252) is fulfilled: the element is bound to
\* the device, and the then-callback plays whatever this.outputMediaAudio is
\* by now (it throws when that is null).
SetSinkIdFulfilled(i) ==
    /\ sinkOps[i].status = "pending"
    /\ LET bound == [audioElements EXCEPT ![sinkOps[i].el].sinkId = sinkOps[i].sinkId]
       IN IF outputMediaAudio = NoElement
          THEN /\ audioElements' = bound
               /\ sinkOps' = [sinkOps EXCEPT ![i].status = "threw"]
          ELSE /\ audioElements' = [bound EXCEPT ![outputMediaAudio].paused = FALSE]
               /\ sinkOps' = [sinkOps EXCEPT ![i].status = "played"]
    /\ UNCHANGED <<mixerOut, outputMediaAudio, gainTarget, prefVars, panningVars, aecVars,
                   sourceVars, outboundVars>>

\* The promise of setSinkId is rejected: there is no rejection handler.
SetSinkIdRejected(i) ==
    /\ sinkOps[i].status = "pending"
    /\ sinkOps' = [sinkOps EXCEPT ![i].status = "rejected"]
    /\ UNCHANGED <<mixerOut, outputMediaAudio, audioElements, gainTarget, prefVars,
                   panningVars, aecVars, sourceVars, outboundVars>>

-----------------------------------------------------------------------------
(***************************************************************************)
(* AudioSystem: addAudio / removeAudio                                     *)
(***************************************************************************)

\* The nodes callers hand to addAudio and removeAudio.
NumSourceNodes == 3
SourceNodes == 1..NumSourceNodes

\* AudioNode.disconnect() with no argument drops every output of the node;
\* connect(dest) adds one.
Disconnect(out) == {}
Connect(out, dest) == out \cup {dest}

\* Mutant of AddAudioOutputs: the node is not disconnected first.
AddAudioOutputsNoDisconnect(out, sourceType) == Connect(out, Mixer(sourceType))

\* Lines 197-198: the outputs of the node after addAudio.
AddAudioOutputs(out, sourceType) == Connect(Disconnect(out), Mixer(sourceType))

\* addAudio({ node, sourceType }), lines 196-199.
AddAudio(node, sourceType) ==
    /\ sourceOut' = [sourceOut EXCEPT ![node] = AddAudioOutputs(@, sourceType)]
    /\ registered' = [registered EXCEPT ![node] = sourceType]
    /\ UNCHANGED <<aecVars, prefVars, routingVars, gainTarget, panningVars, outboundVars>>

\* removeAudio({ node }), lines 201-203.
RemoveAudio(node) ==
    /\ sourceOut' = [sourceOut EXCEPT ![node] = Disconnect(@)]
    /\ registered' = [registered EXCEPT ![node] = "none"]
    /\ UNCHANGED <<aecVars, prefVars, routingVars, gainTarget, panningVars, outboundVars>>

-----------------------------------------------------------------------------
(***************************************************************************)
(* AudioSystem: addStreamToOutboundAudio / removeStreamFromOutboundAudio   *)
(***************************************************************************)

StreamIds == {"id1", "id2"}
MediaStreams == {"s1", "s2"}
MaxOutboundPairs == 3   \* pairs of nodes created

\* The outputs of an outbound node: another created node, or
\* this.outboundGainNode.
OutboundNode(k) == <<"node", k>>
OutboundGainNode == <<"outboundGainNode", 0>>

\* this.audioNodes.delete(id)
MapDelete(map, id) == [i \in DOMAIN map \ {id} |-> map[i]]
\* this.audioNodes.set(id, value)
MapSet(map, id, value) == [i \in DOMAIN map \cup {id} |-> IF i = id THEN value ELSE map[i]]

\* Mutant of RemoveStream: the nodes of the pair are disconnected, the entry
\* of the map is kept.
RemoveStreamKeepsEntry(map, nodes, id) ==
    IF id \in DOMAIN map
    THEN [map   |-> map,
          nodes |-> [nodes EXCEPT ![map[id].sourceNode].out = Disconnect(@),
                                  ![map[id].gainNode].out = Disconnect(@)]]
    ELSE [map |-> map, nodes |-> nodes]

\* Lines 184-189 on the pair of maps (audioNodes, outboundNodes): the result
\* of removeStreamFromOutboundAudio(id).
RemoveStream(map, nodes, id) ==
    IF id \in DOMAIN map
    THEN [map   |-> MapDelete(map, id),
          nodes |-> [nodes EXCEPT ![map[id].sourceNode].out = Disconnect(@),
                                  ![map[id].gainNode].out = Disconnect(@)]]
    ELSE [map |-> map, nodes |-> nodes]

\* Mutant of RemovePrior: a registered id is not removed before it is added
\* again.
RemovePriorSkipped(map, nodes, id) == [map |-> map, nodes |-> nodes]

\* Lines 172-174: the guard of addStreamToOutboundAudio.
RemovePrior(map, nodes, id) ==
    IF id \in DOMAIN map THEN RemoveStream(map, nodes, id) ELSE [map |-> map, nodes |-> nodes]

\* addStreamToOutboundAudio(id, mediaStream), lines 171-181.
AddStreamToOutboundAudio(id, mediaStream) ==
    /\ Len(outboundNodes) < 2 * MaxOutboundPairs
    /\ LET prior == RemovePrior(audioNodes, outboundNodes, id)
           sourceNode == Len(outboundNodes) + 1
           gainNode == Len(outboundNodes) + 2
       IN /\ outboundNodes' = prior.nodes \o
                << [kind |-> "source", stream |-> mediaStream,
                    out |-> Connect({}, OutboundNode(gainNode))],
                   [kind |-> "gain", stream |-> "none",
                    out |-> Connect({}, OutboundGainNode)] >>
          /\ audioNodes' = MapSet(prior.map, id,
                                  [sourceNode |-> sourceNode, gainNode |-> gainNode])
    /\ UNCHANGED <<aecVars, prefVars, routingVars, gainTarget, panningVars, sourceVars>>

\* removeStreamFromOutboundAudio(id), lines 183-190.
RemoveStreamFromOutboundAudio(id) ==
    /\ LET r == RemoveStream(audioNodes, outboundNodes, id)
       IN /\ audioNodes' = r.map
          /\ outboundNodes' = r.nodes
    /\ UNCHANGED <<aecVars, prefVars, routingVars, gainTarget, panningVars, sourceVars>>

-----------------------------------------------------------------------------
InitialPreferences ==
    [globalVoiceVolume |-> 100, globalMediaVolume |-> 100, globalSFXVolume |-> 100,
     disableLeftRightPanning |-> FALSE, audioPanningQuality |-> "High"]

\* The state the constructor leaves (lines 122-169), before any gesture.
Init ==
    /\ audioCtxState = "suspended"
    /\ resumeRequested = FALSE
    /\ gestureListeners = TRUE
    /\ resumeTimeouts = 0
    /\ audioContextNeedsToBeResumed = FALSE
    /\ isMobile \in BOOLEAN
    /\ isChrome \in BOOLEAN
    /\ disableEchoCancellation \in BOOLEAN
    /\ sessions = <<>>
    /\ destinationGainOut = {AudioDestination}
    /\ delayedReconnectTimeout = Null
    /\ pendingTimers = {}
    /\ nextTimerId = 1
    /\ preferences = InitialPreferences
    /\ isAudioOutputSelectEnabled \in BOOLEAN
    /\ selectedSpeakersDeviceId = DefaultOutputDeviceId
    /\ mixerOut = ConstructedMixerOut
    /\ gainTarget = [n \in GainNodes |-> CreatedGain]
    /\ outputMediaAudio = NoElement
    /\ audioElements = <<>>
    /\ sinkOps = <<>>
    /\ disableLeftRightPanning = preferences.disableLeftRightPanning
    /\ audioPanningQuality = preferences.audioPanningQuality
    /\ audios = [a \in {"pannerAudio", "stereoAudio"} |->
                    [audioType |-> IF a = "pannerAudio" THEN "pannernode" ELSE "stereo",
                     positional |-> a = "pannerAudio",
                     done |-> {}]]
    /\ sourceOut = [n \in SourceNodes |-> {"elsewhere"}]
    /\ registered = [n \in SourceNodes |-> "none"]
    /\ audioNodes = <<>>
    /\ outboundNodes = <<>>

IceStates == {"connected", "disconnected"}

NextAEC ==
    \/ ResumeAudioContext
    \/ \E ok \in BOOLEAN : ResumeTimeoutFires(ok)
    \/ AudioContextResumed
    \/ AudioContextSuspended
    \/ \E s \in DOMAIN sessions, ok \in BOOLEAN : CreateOfferSettles(s, ok)
    \/ \E s \in DOMAIN sessions, ok \in BOOLEAN : InboundSetRemoteSettles(s, ok)
    \/ \E s \in DOMAIN sessions, ok, rewriteOk \in BOOLEAN : CreateAnswerSettles(s, ok, rewriteOk)
    \/ \E s \in DOMAIN sessions, ok \in BOOLEAN : OutboundSetLocalSettles(s, ok)
    \/ \E s \in DOMAIN sessions, ok \in BOOLEAN : InboundSetLocalSettles(s, ok)
    \/ \E s \in DOMAIN sessions, ok \in BOOLEAN : OutboundSetRemoteSettles(s, ok)
    \/ \E s \in DOMAIN sessions, st \in IceStates : OutboundIceConnectionStateChange(s, st)
    \/ \E s \in DOMAIN sessions, st \in IceStates : InboundIceConnectionStateChange(s, st)
    \/ \E t \in pendingTimers, ok \in BOOLEAN : DelayedReconnectFires(t, ok)
    \/ \E disabled \in BOOLEAN : EchoCancellationPrefChanged(disabled)

\* The AEC loopback bridge alone: gestures, the audio context, negotiation,
\* connection states and the reconnect timer.
InitAEC == Init /\ isAudioOutputSelectEnabled
SpecAEC == InitAEC /\ [][NextAEC]_vars

NextRouting ==
    \/ \E d \in Devices : SpeakersStateChanged(d)
    \/ \E i \in DOMAIN sinkOps : SetSinkIdFulfilled(i)
    \/ \E i \in DOMAIN sinkOps : SetSinkIdRejected(i)

\* The output routing controller alone: device selections and the settling
\* of setSinkId.
InitRouting == Init /\ ~isMobile /\ isChrome /\ ~disableEchoCancellation
SpecRouting == InitRouting /\ [][NextRouting]_vars

NextMixer ==
    \/ \E n \in SourceNodes, st \in SourceTypes : AddAudio(n, st)
    \/ \E n \in SourceNodes : RemoveAudio(n)

\* addAudio and removeAudio alone.
InitMixer == InitRouting /\ isAudioOutputSelectEnabled
SpecMixer == InitMixer /\ [][NextMixer]_vars

NextOutbound ==
    \/ \E id \in StreamIds, ms \in MediaStreams : AddStreamToOutboundAudio(id, ms)
    \/ \E id \in StreamIds : RemoveStreamFromOutboundAudio(id)

\* The outbound aggregator alone.
SpecOutbound == InitMixer /\ [][NextOutbound]_vars

NextNegotiation ==
    \/ ResumeAudioContext
    \/ \E ok \in BOOLEAN : ResumeTimeoutFires(ok)
    \/ AudioContextResumed
    \/ \E s \in DOMAIN sessions, ok \in BOOLEAN : CreateOfferSettles(s, ok)
    \/ \E s \in DOMAIN sessions, ok \in BOOLEAN : InboundSetRemoteSettles(s, ok)
    \/ \E s \in DOMAIN sessions, ok, rewriteOk \in BOOLEAN : CreateAnswerSettles(s, ok, rewriteOk)
    \/ \E s \in DOMAIN sessions, ok \in BOOLEAN : OutboundSetLocalSettles(s, ok)
    \/ \E s \in DOMAIN sessions, ok \in BOOLEAN : InboundSetLocalSettles(s, ok)
    \/ \E s \in DOMAIN sessions, ok \in BOOLEAN : OutboundSetRemoteSettles(s, ok)

NextICE ==
    \/ NextNegotiation
    \/ \E s \in DOMAIN sessions : OutboundIceCandidate(s)
    \/ \E s \in DOMAIN sessions : InboundIceCandidate(s)
    \/ \E s \in DOMAIN sessions : \E i \in DOMAIN sessions[s].toInbound, ok \in BOOLEAN :
          InboundAddIceCandidateSettles(s, i, ok)
    \/ \E s \in DOMAIN sessions : \E i \in DOMAIN sessions[s].toOutbound, ok \in BOOLEAN :
          OutboundAddIceCandidateSettles(s, i, ok)

\* Activation, negotiation and the exchange of ICE candidates.
SpecICE == InitMixer /\ [][NextICE]_vars

NextPrefs == \E prefs \in Preferences : PreferencesChanged(prefs)

\* The preference reactor alone: volumes and panning preferences change.
SpecPrefs == InitMixer /\ [][NextPrefs]_vars

\* The mixer sources and the outbound aggregator together.
NextGraph == NextMixer \/ NextOutbound
SpecGraph == InitMixer /\ [][NextGraph]_vars

Next == NextAEC \/ NextICE \/ NextRouting \/ NextMixer \/ NextOutbound \/ NextPrefs

Spec == Init /\ [][Next]_vars

-----------------------------------------------------------------------------
(***************************************************************************)
(* Properties of the AEC loopback bridge                                   *)
(***************************************************************************)

\* The sessions whose negotiation has not been aborted: their two peer
\* connections and their loopback destination exist and are in use (the
\* source has no close() call, so no session ever leaves this set otherwise).
LiveIn(ss) == {s \in DOMAIN ss : ss[s].pc # "aborted"}
LiveSessions == LiveIn(sessions)

\* A step of the negotiation of session s failed.
NegotiationFailed(s) ==
    \/ sessions[s].pc = "aborted"
    \/ "failed" \in {sessions[s].outLocal, sessions[s].inRemote,
                     sessions[s].inLocal, sessions[s].outRemote}

\* Steps seen from the state alone: a connection of session s reports the
\* given iceConnectionState, and the callback of the 10s timer runs (the
\* only place that resets the variable to null).
IceBecomes(s, state) ==
    \/ sessions[s].outIce # state /\ sessions'[s].outIce = state
    \/ sessions[s].inIce # state /\ sessions'[s].inIce = state
ReconnectStep == delayedReconnectTimeout # Null /\ delayedReconnectTimeout' = Null

\* C1: at most one loopback session is live in every reachable state.
C1_AtMostOneLiveSession == Cardinality(LiveSessions) <= 1

\* C2: when a step of the negotiation of a session has failed, the final mix
\* node is not connected to the loopback sink of that session.
C2_FailureLeavesGraphUntouched ==
    \A s \in DOMAIN sessions :
        NegotiationFailed(s) => LoopbackDestination(s) \notin destinationGainOut

\* C3: the final mix node is connected to the loopback sink of a session only
\* when the local and the remote description are set on both connections.
C3_RerouteOnlyAfterDescriptionsSet ==
    \A s \in DOMAIN sessions :
        LoopbackDestination(s) \in destinationGainOut => Negotiated(s)

\* C4: a "disconnected" report of either connection leaves one freshly
\* scheduled timer pending, whatever was pending before; a "connected" report
\* of either connection leaves no timer pending and creates no session; and a
\* session is created by the timer only while a timer is pending.
C4_DisconnectSchedulesConnectCancels ==
    [][/\ \A s \in DOMAIN sessions :
            IceBecomes(s, "disconnected") =>
                /\ pendingTimers' = {delayedReconnectTimeout'}
                /\ delayedReconnectTimeout' \notin pendingTimers \cup {delayedReconnectTimeout, Null}
       /\ \A s \in DOMAIN sessions :
            IceBecomes(s, "connected") =>
                /\ pendingTimers' = {}
                /\ Len(sessions') = Len(sessions)
       /\ ReconnectStep => delayedReconnectTimeout \in pendingTimers
      ]_vars

\* C4 witness: a timer was scheduled and then cancelled by a connection that
\* recovered (the variable keeps the id of a timer that is pending no more).
C4_Witness ==
    /\ delayedReconnectTimeout # Null
    /\ pendingTimers = {}
    /\ \E s \in DOMAIN sessions : "connected" \in {sessions[s].outIce, sessions[s].inIce}

\* C5: when the reconnect timer fires, no session that existed before the
\* firing is live after it.
C5_ReconnectReplacesOldSession ==
    [][ReconnectStep => \A s \in DOMAIN sessions : s \notin LiveIn(sessions')]_vars

\* C6: at most one reconnect timer is pending, and it is the one the module
\* variable names.
C6_AtMostOnePendingTimer ==
    /\ Cardinality(pendingTimers) <= 1
    /\ pendingTimers \subseteq {delayedReconnectTimeout}

\* C6 witness: a second "disconnected" report has replaced the timer of the
\* first.
C6_Witness ==
    /\ nextTimerId > 2
    /\ pendingTimers = {2}

-----------------------------------------------------------------------------
(***************************************************************************)
(* Properties of the output routing controller                             *)
(***************************************************************************)

\* The hidden element this.outputMediaAudio, when there is one.
HiddenElement == audioElements[outputMediaAudio]

\* An element after lines 236-237: paused, with no source.
TornDown(el) == el.paused /\ el.srcObject = "null"

\* C7 as stated: with output selection supported, an explicit selection has
\* the category nodes on the intermediate destination and a hidden element
\* bound to the selected device; the default selection has them on the
\* default path and no hidden element.
C7_SelectedDeviceIsBound ==
    isAudioOutputSelectEnabled =>
        IF selectedSpeakersDeviceId # DefaultOutputDeviceId
        THEN /\ MixerSink = "audioDestination"
             /\ outputMediaAudio # NoElement
             /\ HiddenElement.sinkId = selectedSpeakersDeviceId
        ELSE /\ MixerSink = "destinationGain"
             /\ outputMediaAudio = NoElement

\* C7 as amended, in every state: an explicit selection has the category
\* nodes on the intermediate destination and a hidden element fed by its
\* stream; the default selection has them on the default path, no hidden
\* element, and every element created before torn down.
C7_RoutingFollowsSelection ==
    isAudioOutputSelectEnabled =>
        IF selectedSpeakersDeviceId # DefaultOutputDeviceId
        THEN /\ MixerSink = "audioDestination"
             /\ outputMediaAudio # NoElement
             /\ HiddenElement.srcObject = "stream"
        ELSE /\ MixerSink = "destinationGain"
             /\ outputMediaAudio = NoElement
             /\ \A e \in DOMAIN audioElements : TornDown(audioElements[e])

\* C7 as amended, on every step: a change from the default device to X calls
\* setSinkId(X) on the new hidden element, and a setSinkId call that is
\* fulfilled leaves its element bound to the device it was called with.
C7_SwitchRequestedThenBound ==
    /\ (isAudioOutputSelectEnabled
        /\ selectedSpeakersDeviceId = DefaultOutputDeviceId
        /\ selectedSpeakersDeviceId' # DefaultOutputDeviceId)
       => /\ Len(sinkOps') = Len(sinkOps) + 1
          /\ sinkOps'[Len(sinkOps')].el = outputMediaAudio'
          /\ sinkOps'[Len(sinkOps')].sinkId = selectedSpeakersDeviceId'
          /\ sinkOps'[Len(sinkOps')].status = "pending"
    /\ \A i \in DOMAIN sinkOps :
          (sinkOps[i].status = "pending" /\ sinkOps'[i].status \in {"played", "threw"})
          => audioElements'[sinkOps[i].el].sinkId = sinkOps[i].sinkId

\* C7 (amended): output routing follows the selected device; the hidden
\* element of an explicit selection X has a switch to X requested, and is
\* bound to X when that request is fulfilled.
C7_OutputRouting ==
    /\ []C7_RoutingFollowsSelection
    /\ [][C7_SwitchRequestedThenBound]_vars

\* C7 witness: after an explicit selection whose switch was fulfilled, the
\* selection is the default device again and the element is torn down.
C7_Witness ==
    /\ isAudioOutputSelectEnabled
    /\ selectedSpeakersDeviceId = DefaultOutputDeviceId
    /\ outputMediaAudio = NoElement
    /\ MixerSink = "destinationGain"
    /\ \E e \in DOMAIN audioElements :
          audioElements[e].sinkId \in Devices /\ TornDown(audioElements[e])

\* C8: when the last sink switch requested was rejected and the selection is
\* still the device it was requested for, the category nodes are connected to
\* the sink they were connected to before that request.
C8_FailedSwitchKeepsPriorRouting ==
    \A i \in DOMAIN sinkOps :
        (/\ i = Len(sinkOps)
         /\ sinkOps[i].status = "rejected"
         /\ selectedSpeakersDeviceId = sinkOps[i].sinkId)
        => MixerSink = sinkOps[i].prior

-----------------------------------------------------------------------------
(***************************************************************************)
(* Properties of the mixer graph and of the outbound aggregator            *)
(***************************************************************************)

\* C9: a registered source node is connected to the gain node of the
\* category of its last addAudio and to nothing else; a node that is not
\* registered is connected to no category gain node.
C9_OneCategoryPerSource ==
    \A n \in SourceNodes :
        IF registered[n] # "none"
        THEN sourceOut[n] = {Mixer(registered[n])}
        ELSE sourceOut[n] \cap GainNodes = {}

\* C9 witness: one node was added twice, to a category other than the one it
\* is in now, one node is added and one was removed.
C9_Witness ==
    \E n, m, k \in SourceNodes :
        /\ registered[n] = "AUDIO_TARGET" /\ sourceOut[n] = {"mediaGain"}
        /\ registered[m] = "SFX"
        /\ registered[k] = "none" /\ sourceOut[k] = {}

\* The created nodes that belong to a registered pair.
RegisteredNodes ==
    UNION {{audioNodes[id].sourceNode, audioNodes[id].gainNode} : id \in DOMAIN audioNodes}

\* C10, in every state: every registered id has one pair wired source ->
\* gain -> shared outbound gain, pairs of different ids share no node, and a
\* node of no registered pair is connected to nothing.
C10_OnePairPerStreamId ==
    /\ \A id \in DOMAIN audioNodes :
          LET pair == audioNodes[id]
          IN /\ outboundNodes[pair.sourceNode].kind = "source"
             /\ outboundNodes[pair.gainNode].kind = "gain"
             /\ outboundNodes[pair.sourceNode].out = {OutboundNode(pair.gainNode)}
             /\ outboundNodes[pair.gainNode].out = {OutboundGainNode}
    /\ Cardinality(RegisteredNodes) = 2 * Cardinality(DOMAIN audioNodes)
    /\ \A k \in DOMAIN outboundNodes :
          k \notin RegisteredNodes => outboundNodes[k].out = {}

\* C10, on every step: addStream(id, s) leaves id registered with a pair
\* built from s, and the nodes of the pair id had before are disconnected.
C10_AddReplacesPair ==
    \A id \in StreamIds, ms \in MediaStreams :
        AddStreamToOutboundAudio(id, ms) =>
            /\ id \in DOMAIN audioNodes'
            /\ outboundNodes'[audioNodes'[id].sourceNode].stream = ms
            /\ id \in DOMAIN audioNodes =>
                  /\ audioNodes'[id] # audioNodes[id]
                  /\ outboundNodes'[audioNodes[id].sourceNode].out = {}
                  /\ outboundNodes'[audioNodes[id].gainNode].out = {}

\* C10: the outbound aggregator holds at most one pair per stream id, and
\* adding an id again replaces its pair.
C10_OutboundPairs ==
    /\ []C10_OnePairPerStreamId
    /\ [][C10_AddReplacesPair]_vars

\* C10 witness: id1 is registered with a pair built from s2 after the pair
\* built for it from s1 was disconnected.
C10_Witness ==
    /\ "id1" \in DOMAIN audioNodes
    /\ audioNodes["id1"].sourceNode = 3
    /\ outboundNodes[3].stream = "s2"
    /\ outboundNodes[1].stream = "s1"
    /\ outboundNodes[1].out = {}
    /\ outboundNodes[2].out = {}
    /\ DOMAIN audioNodes = {"id1"}

\* The state addAudio/removeAudio and the outbound aggregator work on, and
\* that state after removeAudio({node}) and after
\* removeStreamFromOutboundAudio(id).
GraphState == [sourceOut |-> sourceOut, map |-> audioNodes, nodes |-> outboundNodes]
AfterRemoveAudio(g, node) ==
    [g EXCEPT !.sourceOut = [g.sourceOut EXCEPT ![node] = Disconnect(@)]]
AfterRemoveStream(g, id) ==
    LET r == RemoveStream(g.map, g.nodes, id)
    IN [g EXCEPT !.map = r.map, !.nodes = r.nodes]

\* C11: removeAudio twice on a node, or removeStream twice on an id, are
\* defined and leave the connections and the map as the first call left them:
\* the first call leaves the node without outputs and the id without entry,
\* and a call for an id that has no entry changes nothing.
C11_RemoveIsIdempotent ==
    /\ \A n \in SourceNodes :
          LET once == AfterRemoveAudio(GraphState, n)
          IN /\ once.sourceOut[n] = {}
             /\ AfterRemoveAudio(once, n) = once
    /\ \A id \in StreamIds :
          LET once == AfterRemoveStream(GraphState, id)
          IN /\ id \notin DOMAIN once.map
             /\ AfterRemoveStream(once, id) = once
             /\ id \notin DOMAIN audioNodes => once = GraphState

\* C11 witness: id1 was added and removed while id2 stays registered, and a
\* node that was added to the mixer has been removed: a second removal of
\* either starts from here.
C11_Witness ==
    /\ DOMAIN audioNodes = {"id2"}
    /\ Len(outboundNodes) >= 4
    /\ \E k \in DOMAIN outboundNodes : outboundNodes[k].out = {}
    /\ \E n \in SourceNodes : registered[n] = "none" /\ sourceOut[n] = {}
    /\ \E n \in SourceNodes : registered[n] # "none"

-----------------------------------------------------------------------------
(***************************************************************************)
(* Properties of the preference reactor                                    *)
(***************************************************************************)

\* What an update did to the entry a of APP.audios.
Switched(a) == "swapAudioType" \in audios'[a].done
Reapplied(a) == "updateAudioSettings" \in audios'[a].done

\* The update sees a panning mode, or a panning quality, that differs from
\* the cached value.
PanningModeDiffers == disableLeftRightPanning # disableLeftRightPanning'
PanningQualityDiffers == audioPanningQuality # audioPanningQuality'

\* C12 as stated: on an update that sees a panning mode or a panning quality
\* other than the cached one, every source has its technique switched or its
\* settings re-applied, and not both (so a quality change seen together with
\* a mode change reaches every source through one of the two).
C12_ExactlyOnePerSource ==
    [][(PanningModeDiffers \/ PanningQualityDiffers) =>
          \A a \in DOMAIN audios : Switched(a) # Reapplied(a)]_vars

\* C12 as amended: no source is both switched and re-applied; when the mode
\* differs no source is re-applied, and a source is switched exactly when its
\* technique is not the one its settings ask for, which it is afterwards;
\* when only the quality differs every source is re-applied and none is
\* switched; when neither differs nothing is done.
C12_AtMostOnePerSource ==
    [][\A a \in DOMAIN audios :
          /\ ~(Switched(a) /\ Reapplied(a))
          /\ Switched(a) <=> audios'[a].positional # audios[a].positional
          /\ PanningModeDiffers =>
                /\ ~Reapplied(a)
                /\ audios'[a].positional =
                      (CurrentAudioType(audios[a], preferences') = "pannernode")
          /\ (~PanningModeDiffers /\ PanningQualityDiffers) =>
                Reapplied(a) /\ ~Switched(a)
          /\ (~PanningModeDiffers /\ ~PanningQualityDiffers) =>
                ~Reapplied(a) /\ ~Switched(a)
      ]_vars

\* C12 witness: left/right panning is disabled and the quality is not the
\* initial one; the source that asks for a panner was switched to stereo by
\* the last update, the stereo source was left alone.
C12_Witness ==
    /\ disableLeftRightPanning /\ audioPanningQuality = "Low"
    /\ audios["pannerAudio"].done = {"swapAudioType"}
    /\ ~audios["pannerAudio"].positional
    /\ audios["stereoAudio"].done = {}

\* The preference that holds the volume of a category.
CategoryVolume(sourceType, prefs) ==
    CASE sourceType = "AVATAR_AUDIO_SOURCE" -> prefs.globalVoiceVolume
      [] sourceType = "SFX" -> prefs.globalSFXVolume
      [] sourceType = "MEDIA_VIDEO" -> prefs.globalMediaVolume
      [] sourceType = "AUDIO_TARGET" -> prefs.globalMediaVolume

\* The fraction g equals volume / 100.
IsVolumeOver100(g, volume) == g.num * 100 = volume * g.den

\* C13, in every state: the target gain of every category is its preference
\* volume over 100; all volumes 0 give target 0 everywhere and all volumes
\* 100 give target 1 everywhere.
C13_TargetIsVolumeOver100 ==
    /\ \A st \in SourceTypes :
          IsVolumeOver100(gainTarget[Mixer(st)].target, CategoryVolume(st, preferences))
    /\ (\A st \in SourceTypes : CategoryVolume(st, preferences) = 0)
          => \A st \in SourceTypes : gainTarget[Mixer(st)].target.num = 0
    /\ (\A st \in SourceTypes : CategoryVolume(st, preferences) = 100)
          => \A st \in SourceTypes :
                gainTarget[Mixer(st)].target.num = gainTarget[Mixer(st)].target.den

\* C13, on every update: every gain is given its target by setTargetAtTime.
C13_SmoothedOnly ==
    \A n \in GainNodes : gainTarget'[n].method = "setTargetAtTime"

\* C13: after every preference update the target gain of each category is
\* its preference volume / 100, media-video and audio-target sharing the
\* media volume, and it was set as a smoothed target.
C13_Volumes ==
    /\ []C13_TargetIsVolumeOver100
    /\ [][C13_SmoothedOnly]_vars

\* C13 witness: an update has seen three different volumes.
C13_Witness ==
    /\ preferences.globalVoiceVolume = 0
    /\ preferences.globalMediaVolume = 50
    /\ preferences.globalSFXVolume = 100
    /\ gainTarget["voiceGain"] = SetTargetAtTime(NewGain(0))
    /\ gainTarget["mediaGain"] = SetTargetAtTime(NewGain(50))
    /\ gainTarget["sfxGain"] = SetTargetAtTime(NewGain(100))

-----------------------------------------------------------------------------
(***************************************************************************)
(* Properties of the negotiation                                           *)
(***************************************************************************)

\* The call i of the sequence is applied by this step.
BecomesApplied(calls, calls2, i) == calls[i] # "applied" /\ calls2[i] = "applied"

\* C14, in every state: a candidate applied to a connection finds the remote
\* description of that connection set, and every other candidate handed to a
\* connection is queued, or rejected with the rejection caught.
C14_AppliedAfterRemoteDescription ==
    \A s \in DOMAIN sessions :
        /\ \A i \in DOMAIN sessions[s].toInbound :
              /\ sessions[s].toInbound[i] \in {"queued", "applied", "rejected"}
              /\ sessions[s].toInbound[i] = "applied" => sessions[s].inRemote = "set"
        /\ \A i \in DOMAIN sessions[s].toOutbound :
              /\ sessions[s].toOutbound[i] \in {"queued", "applied", "rejected"}
              /\ sessions[s].toOutbound[i] = "applied" => sessions[s].outRemote = "set"

\* C14, on every step: a candidate is applied only by a step that starts
\* with the remote description of the receiving connection set.
C14_NeverAppliedEarly ==
    \A s \in DOMAIN sessions :
        /\ \A i \in DOMAIN sessions[s].toInbound :
              BecomesApplied(sessions[s].toInbound, sessions'[s].toInbound, i)
                 => sessions[s].inRemote = "set"
        /\ \A i \in DOMAIN sessions[s].toOutbound :
              BecomesApplied(sessions[s].toOutbound, sessions'[s].toOutbound, i)
                 => sessions[s].outRemote = "set"

Handed(before, after) == before = "none" /\ after # "none"

\* C15: the offer is handed to the inbound connection as remote description
\* only when setLocalDescription(offer) has completed on the outbound
\* connection, and the answer is handed to either connection only when its
\* SDP has been rewritten.
C15_OfferSetThenHandedAnswerComposed ==
    [][\A s \in DOMAIN sessions :
          /\ Handed(sessions[s].inRemote, sessions'[s].inRemote)
                => sessions'[s].outLocal = "set"
          /\ (\/ Handed(sessions[s].inLocal, sessions'[s].inLocal)
              \/ Handed(sessions[s].outRemote, sessions'[s].outRemote))
                => sessions'[s].answer = "rewritten"
      ]_vars

-----------------------------------------------------------------------------
(***************************************************************************)
(* Further properties of the output routing controller                     *)
(***************************************************************************)

\* C16: a step that leaves the selected device what it was leaves the
\* connections of the category gain nodes what they were and calls setSinkId
\* on no element, whether a switch is pending, has failed or has completed.
C16_UnchangedSelectionDoesNothing ==
    [][selectedSpeakersDeviceId' = selectedSpeakersDeviceId =>
          /\ mixerOut' = mixerOut
          /\ Len(sinkOps') = Len(sinkOps)]_vars

\* C20: the then-callback of setSinkId starts no playback on an element that
\* was torn down, and raises no error, whenever the switch resolves.
C20_LateCompletionIsHarmless ==
    /\ \A e \in DOMAIN audioElements :
          e # outputMediaAudio => audioElements[e].paused
    /\ \A i \in DOMAIN sinkOps : sinkOps[i].status # "threw"

-----------------------------------------------------------------------------
(***************************************************************************)
(* Further properties of the AEC loopback bridge                           *)
(***************************************************************************)

\* C17: a step that creates a session, by the gesture or by the reconnect
\* timer, starts with the audio context running, on a desktop Chrome, with
\* echo cancellation not disabled by preference.
C17_SessionOnlyWhenEnabled ==
    [][Len(sessions') > Len(sessions) =>
          /\ audioCtxState = "running"
          /\ ShouldEnableAEC]_vars

\* The connections of the newest session that report "disconnected".  A
\* reconnect, or any other activation, makes a newer session, so these are
\* the connections no recreation has answered yet.
DisconnectedIn(ss) ==
    IF ss = <<>> THEN {}
    ELSE {c \in {"outbound", "inbound"} :
            IF c = "outbound" THEN ss[Len(ss)].outIce = "disconnected"
                              ELSE ss[Len(ss)].inIce = "disconnected"}

\* C18: while a connection that reported "disconnected" stays disconnected,
\* a pending reconnect is not cancelled: after every step that creates no
\* session the timer is still pending, whatever another connection or an
\* earlier session reports (so that the timer, once it fires, recreates the
\* session).
C18_ReconnectNotCancelledByOthers ==
    [][(/\ pendingTimers # {}
        /\ DisconnectedIn(sessions) \cap DisconnectedIn(sessions') # {}
        /\ Len(sessions') = Len(sessions))
       => pendingTimers' # {}]_vars

\* C19: the final mix node has exactly one output, the true destination or
\* one loopback sink, and a loopback sink it is connected to is that of a
\* session whose negotiation ran to its end with no step failed (the last
\* such session to reroute it, as every reroute drops the output before).
C19_OneOutputOfNegotiatedSession ==
    /\ Cardinality(destinationGainOut) = 1
    /\ \A out \in destinationGainOut :
          \/ out = AudioDestination
          \/ \E s \in DOMAIN sessions :
                /\ out = LoopbackDestination(s)
                /\ sessions[s].pc = "done"
                /\ ~NegotiationFailed(s)
=============================================================================
